---- MODULE Spec2Model ----
(***************************************************************************)
(* A model of the predictive-text engine: the Trie (prefix tree with       *)
(* compress / contains / complete), the weighted levenshtein distance and  *)
(* the Ngram language model (tabulate / probabilities / suggestNextWord /  *)
(* complete with its lookup cache).                                        *)
(*                                                                         *)
(* JavaScript strings are TLA+ strings (Len, \o and SubSeq apply to them). *)
(* A JavaScript object is the sequence of its own properties in            *)
(* enumeration order: a property assigned for the first time goes to the   *)
(* end, a property assigned again keeps its place, a deleted property      *)
(* leaves.  (No key of the model is an integer-like string, which          *)
(* JavaScript would enumerate first.)                                      *)
(***************************************************************************)
EXTENDS Integers, Sequences, FiniteSets, TLC

VARIABLES
    \* ---- Trie ----
    model,        \* the heap of trie nodes; model[1] is this.model (the root)
    index,        \* this.index, the insertion counter
    inserted,     \* history: the words given to insert(), in order
    compressions, \* history: how many times compress() has run
    before,       \* history: the heap as it was when compress() last started
    completion,   \* the last complete(prefix, maxWord) call and what it returned
    \* ---- levenshtein ----
    source, target, maximumDistance,
    distance,     \* <<what levenshtein returned>>, <<>> before the call
    \* ---- Ngram ----
    size,         \* this.size
    text,         \* the input given to the constructor
    built,        \* whether the constructor has run setValue
    ngrams,       \* this.model of Ngram: the probability Map, in insertion order
    lookup,       \* this.lookup, the cached suggestion
    call,         \* the last Ngram.complete call: its arguments, trace and result
    storer,       \* history: the complete call that stored this.lookup
    suggested     \* the last suggestNextWord(sequence) call and what it returned

trieVars  == <<model, index, inserted, compressions, before, completion>>
levVars   == <<source, target, maximumDistance, distance>>
ngramVars == <<size, text, built, ngrams, lookup, call, storer, suggested>>
vars      == <<trieVars, levVars, ngramVars>>

-----------------------------------------------------------------------------
(* Strings *)

CharAt(s, i) == SubSeq(s, i, i)

\* String.prototype.startsWith
StartsWith(s, p) == Len(p) <= Len(s) /\ SubSeq(s, 1, Len(p)) = p

\* String.prototype.endsWith
EndsWith(s, p) == Len(p) <= Len(s) /\ SubSeq(s, Len(s) - Len(p) + 1, Len(s)) = p

\* s.substring(n) for 0 <= n
SubstringFrom(s, n) == SubSeq(s, n + 1, Len(s))

LowerChar(c) ==
    CASE c = "A" -> "a"
      [] c = "B" -> "b"
      [] c = "C" -> "c"
      [] OTHER   -> c

RECURSIVE ToLowerCase(_)
\* String.prototype.toLowerCase, on the characters the model uses
ToLowerCase(s) ==
    IF s = "" THEN ""
    ELSE LowerChar(CharAt(s, 1)) \o ToLowerCase(SubstringFrom(s, 1))

-----------------------------------------------------------------------------
(* JavaScript values and objects, as the Trie uses them *)

Obj(id)   == [t |-> "obj", n |-> id]     \* a reference to node model[id]
True      == [t |-> "bool", n |-> 1]     \* the value true
Num(i)    == [t |-> "num", n |-> i]      \* a number
Undefined == [t |-> "undefined", n |-> 0]

\* ToBoolean
Truthy(v) ==
    CASE v.t = "obj"  -> TRUE
      [] v.t = "bool" -> v.n = 1
      [] v.t = "num"  -> v.n # 0
      [] OTHER        -> FALSE

\* Object.keys(node)
Keys(node) == [i \in 1..Len(node) |-> node[i].k]

HasKey(node, key) == \E i \in 1..Len(node) : node[i].k = key

\* node[key]
Get(node, key) ==
    IF HasKey(node, key)
    THEN node[CHOOSE i \in 1..Len(node) : node[i].k = key].v
    ELSE Undefined

\* node[key] = v
Set(node, key, v) ==
    IF HasKey(node, key)
    THEN [i \in 1..Len(node) |-> IF node[i].k = key THEN [k |-> key, v |-> v] ELSE node[i]]
    ELSE Append(node, [k |-> key, v |-> v])

\* delete node[key]
Delete(node, key) == SelectSeq(node, LAMBDA e : e.k # key)

\* The properties of a value: those of the node it refers to, none for a
\* primitive (true, a number) or undefined.
Props(heap, v) == IF v.t = "obj" THEN heap[v.n] ELSE <<>>

\* v.flush, read as a condition
Flush(heap, v) == Truthy(Get(Props(heap, v), "flush"))

Root == Obj(1)

-----------------------------------------------------------------------------
(* Trie *)

\* Bounds of the Trie specification
MaxInput == 3       \* how many words the input array holds at most
MaxCompress == 2    \* how many times compress() runs at most
MaxWord == 2        \* the largest maxWord given to complete

\* The words the input array is drawn from, and the prefixes completed
Vocabulary == {"", "a", "abc", "ad", "index", "aindex", "car", "Cat", "pot"}
Prefixes   == {"", "a", "ai", "c", "ca", "Ca", "po", "x"}

RECURSIVE InsertWalk(_, _, _)
\* The loop of insert: node = node[character] ??= {} for each character.
\* Returns the heap and the node arrived at.
InsertWalk(heap, id, word) ==
    IF word = "" THEN [heap |-> heap, node |-> id]
    ELSE LET character == CharAt(word, 1)
             child     == Get(heap[id], character)
             fresh     == Len(heap) + 1
         IN  IF child.t = "undefined"
             THEN InsertWalk(Append([heap EXCEPT ![id] = Set(@, character, Obj(fresh))], <<>>),
                             fresh, SubstringFrom(word, 1))
             ELSE InsertWalk(heap, child.n, SubstringFrom(word, 1))

\* insert(word) with this.index = idx: the heap afterwards
Insert(heap, idx, word) ==
    LET w == InsertWalk(heap, 1, ToLowerCase(word))
    IN  [w.heap EXCEPT ![w.node] = Set(Set(@, "flush", True), "index", Num(idx + 1))]

RECURSIVE CompressEntries(_, _, _, _)
RECURSIVE Compress(_, _)
\* The body of compress's loop for entries[i], entries[i+1], ... where
\* entries is Object.entries(node) as taken when the loop started.
CompressEntries(heap, id, entries, i) ==
    IF i > Len(entries) THEN heap
    ELSE LET key       == entries[i].k
             childNode == entries[i].v
         IN  IF childNode.t # "obj" \/ Flush(heap, childNode)
             THEN CompressEntries(heap, id, entries, i + 1)
             ELSE LET keys   == Keys(heap[childNode.n])
                      merged == IF Len(keys) = 1
                                THEN [heap EXCEPT ![id] =
                                        Delete(Set(@, key \o keys[1], Get(heap[childNode.n], keys[1])), key)]
                                ELSE heap
                  IN  CompressEntries(Compress(merged, childNode.n), id, entries, i + 1)

\* compress(node): the heap afterwards
Compress(heap, id) == CompressEntries(heap, id, heap[id], 1)

RECURSIVE ContainsWalk(_, _, _)
\* The while loop of contains and its return, from node (a value) with
\* remainingWord still to match.
ContainsWalk(heap, node, remainingWord) ==
    IF remainingWord # "" /\ Truthy(node)
    THEN LET keys  == Keys(Props(heap, node))
             found == {i \in 1..Len(keys) : StartsWith(remainingWord, keys[i])}
         IN  IF found = {} THEN FALSE
             ELSE LET key == keys[CHOOSE i \in found : \A j \in found : i <= j]
                  IN  ContainsWalk(heap, Get(Props(heap, node), key),
                                   SubstringFrom(remainingWord, Len(key)))
    ELSE remainingWord = "" /\ Flush(heap, node)

\* contains(word)
Contains(heap, word) == ContainsWalk(heap, Root, ToLowerCase(word))

RECURSIVE FindWords(_, _, _, _, _)
RECURSIVE FindWordsEach(_, _, _, _, _, _)
\* The forEach of findWords over keys[i], keys[i+1], ...
FindWordsEach(heap, word, maxWord, node, i, list) ==
    LET keys == Keys(Props(heap, node))
    IN  IF i > Len(keys) THEN list
        ELSE FindWordsEach(heap, word, maxWord, node, i + 1,
                 FindWords(heap, word \o keys[i], maxWord, Get(Props(heap, node), keys[i]), list))

\* findWords(word, maxWord, node, list): the list afterwards
FindWords(heap, word, maxWord, node, list) ==
    IF Len(list) >= maxWord THEN list
    ELSE FindWordsEach(heap, word, maxWord, node, 1,
                       IF Flush(heap, node) THEN Append(list, word) ELSE list)

RECURSIVE CompleteWalk(_, _, _, _, _)
\* The while loop of complete: [found, matchedPrefix, node]
CompleteWalk(heap, prefixLower, idx, matchedPrefix, node) ==
    IF idx >= Len(prefixLower)
    THEN [found |-> TRUE, matchedPrefix |-> matchedPrefix, node |-> node]
    ELSE LET segment  == SubstringFrom(prefixLower, idx)
             keys     == Keys(Props(heap, node))
             matching == {i \in 1..Len(keys) :
                             StartsWith(keys[i], segment) \/ StartsWith(segment, keys[i])}
         IN  IF matching = {}
             THEN [found |-> FALSE, matchedPrefix |-> matchedPrefix, node |-> node]
             ELSE LET matchingKey == keys[CHOOSE i \in matching : \A j \in matching : i <= j]
                  IN  CompleteWalk(heap, prefixLower, idx + Len(matchingKey),
                                   matchedPrefix \o matchingKey,
                                   Get(Props(heap, node), matchingKey))

\* What complete returns: a list (maxWord > 1), or a word or undefined
ListResult(list) == [t |-> "list", v |-> list]
WordResult(list) ==
    IF list = <<>> THEN [t |-> "undefined", v |-> <<>>] ELSE [t |-> "word", v |-> <<list[1]>>]

\* complete(prefix, maxWord)
Complete(heap, prefix, maxWord) ==
    LET notFound == IF maxWord > 1 THEN ListResult(<<>>) ELSE WordResult(<<>>)
        walk     == CompleteWalk(heap, ToLowerCase(prefix), 0, "", Root)
        match    == FindWords(heap, walk.matchedPrefix, maxWord, walk.node, <<>>)
    IN  IF prefix = "" THEN notFound
        ELSE IF ~walk.found THEN notFound
        ELSE IF maxWord > 1 THEN ListResult(match) ELSE WordResult(match)

NoCompletion == [called |-> FALSE, prefix |-> "", maxWord |-> 0, result |-> ListResult(<<>>)]

\* new Trie: this.model = {}, this.index = 0, before tokenize(input)
TrieInit ==
    /\ model = << <<>> >>
    /\ index = 0
    /\ inserted = <<>>
    /\ compressions = 0
    /\ before = << <<>> >>
    /\ completion = NoCompletion

\* tokenize's input.forEach(i => this.insert(i)), one word
TrieInsert(word) ==
    /\ compressions = 0
    /\ Len(inserted) < MaxInput
    /\ model' = Insert(model, index, word)
    /\ index' = index + 1
    /\ inserted' = Append(inserted, word)
    /\ completion' = NoCompletion
    /\ UNCHANGED <<compressions, before>>
    /\ UNCHANGED <<levVars, ngramVars>>

\* this.compress(): the constructor's, and any later call
TrieCompress ==
    /\ compressions < MaxCompress
    /\ model' = Compress(model, 1)
    /\ before' = model
    /\ compressions' = compressions + 1
    /\ completion' = NoCompletion
    /\ UNCHANGED <<index, inserted>>
    /\ UNCHANGED <<levVars, ngramVars>>

\* complete(prefix, maxWord) on the constructed trie
TrieComplete(prefix, maxWord) ==
    /\ compressions >= 1
    /\ completion' = [called |-> TRUE, prefix |-> prefix, maxWord |-> maxWord,
                      result |-> Complete(model, prefix, maxWord)]
    /\ UNCHANGED <<model, index, inserted, compressions, before>>
    /\ UNCHANGED <<levVars, ngramVars>>

-----------------------------------------------------------------------------
(* levenshtein *)

revisionScore == 1
additionScore == 1
deletionScore == 2

\* Bounds of the levenshtein specification
MaxSourceLen == 3
MaxTargetLen == 4
MaxDistance  == 3

RECURSIVE StringsUpTo(_, _)
\* The strings of at most n characters over an alphabet
StringsUpTo(alphabet, n) ==
    IF n = 0 THEN {""}
    ELSE LET shorter == StringsUpTo(alphabet, n - 1)
         IN  shorter \cup {s \o c : s \in shorter, c \in alphabet}

LevSources == StringsUpTo({"c", "a", "t"}, MaxSourceLen)
LevTargets == StringsUpTo({"c", "a", "t", "s"}, MaxTargetLen)

Abs(x) == IF x < 0 THEN -x ELSE x
Min3(a, b, c) == IF a <= b /\ a <= c THEN a ELSE IF b <= c THEN b ELSE c

RECURSIVE LevCells(_, _, _, _, _, _)
\* The inner loop, from column j: currRow afterwards
LevCells(src, tgt, i, j, prevRow, currRow) ==
    IF j > Len(tgt) THEN currRow
    ELSE LET revisionScoreConditional ==
                 IF CharAt(src, i) # CharAt(tgt, j) THEN revisionScore ELSE 0
             cell == Min3(prevRow[j - 1] + revisionScoreConditional,
                          currRow[j - 1] + deletionScore,
                          prevRow[j] + additionScore)
         IN  LevCells(src, tgt, i, j + 1, prevRow, [currRow EXCEPT ![j] = cell])

RECURSIVE LevRows(_, _, _, _, _)
\* The outer loop, from row i, and the return of prevRow[target.length]
LevRows(src, tgt, i, prevRow, currRow) ==
    IF i > Len(src) THEN prevRow[Len(tgt)]
    ELSE LevRows(src, tgt, i + 1,
                 LevCells(src, tgt, i, 1, prevRow, [currRow EXCEPT ![0] = i * additionScore]),
                 prevRow)

\* levenshtein(source, target, maximumDistance)
levenshtein(src, tgt, maxDist) ==
    IF Abs(Len(src) - Len(tgt)) > maxDist THEN maxDist + 1
    ELSE LevRows(src, tgt, 1, [j \in 0..Len(tgt) |-> j], [j \in 0..Len(tgt) |-> 0])

\* The arguments of the call, chosen
LevInit ==
    /\ source \in LevSources
    /\ target \in LevTargets
    /\ maximumDistance \in 0..MaxDistance
    /\ distance = <<>>

\* The call levenshtein(source, target, maximumDistance); distance holds
\* the value returned, and is empty before the call.
LevCall ==
    /\ distance = <<>>
    /\ distance' = <<levenshtein(source, target, maximumDistance)>>
    /\ UNCHANGED <<source, target, maximumDistance>>
    /\ UNCHANGED <<trieVars, ngramVars>>

-----------------------------------------------------------------------------
(* Ngram *)

\* Bounds of the Ngram specifications
MaxSize  == 2       \* the largest n-gram size
MaxWordsArg == 3    \* the largest maxWords given to complete

\* The reserved end marker of Ngram.punctuation (U+2403), written "#" here
ETX == "#"

\* The texts, prefixes and sequences the model is built from and asked about
Corpus    == {"", "a", "a ", " a b", "a. b", "a b a c a b a c", "a b. b c", "a b c d",
              "A b a B", "a b# a b#", "a b!? c", "a b a"}
NgPrefixes == {"", "a", "a ", "a b", "a  b", "A", "b"}
SuggestSequences == {"", "a", "A", "b", "a b", "xa", "c"}

IsSpace(c) == c = " "

RECURSIVE SplitWhitespace(_, _, _)
\* text.split(/\s+/) from character i, with the token begun so far
SplitWhitespace(txt, i, token) ==
    IF i > Len(txt) THEN <<token>>
    ELSE IF IsSpace(CharAt(txt, i))
    THEN IF i > 1 /\ IsSpace(CharAt(txt, i - 1))
         THEN SplitWhitespace(txt, i + 1, token)
         ELSE <<token>> \o SplitWhitespace(txt, i + 1, "")
    ELSE SplitWhitespace(txt, i + 1, token \o CharAt(txt, i))

\* tokenize(text)
tokenize(txt) == SplitWhitespace(txt, 1, "")

RECURSIVE Join(_)
\* tokens.join(' ')
Join(tokens) ==
    IF tokens = <<>> THEN ""
    ELSE IF Len(tokens) = 1 THEN tokens[1]
    ELSE tokens[1] \o " " \o Join(Tail(tokens))

RECURSIVE SplitSpace(_, _, _)
\* ngram.split(' ') from character i, with the word begun so far
SplitSpace(s, i, word) ==
    IF i > Len(s) THEN <<word>>
    ELSE IF CharAt(s, i) = " " THEN <<word>> \o SplitSpace(s, i + 1, "")
    ELSE SplitSpace(s, i + 1, word \o CharAt(s, i))

\* Ngram.punctuation.test(word): /[.!?<ETX>]$/
isEndOfSentence(word) ==
    word # "" /\ CharAt(word, Len(word)) \in {".", "!", "?", ETX}

\* word.replace(Ngram.punctuation, '')
StripPunctuation(word) ==
    IF isEndOfSentence(word) THEN SubSeq(word, 1, Len(word) - 1) ELSE word

RECURSIVE ReplaceFirstETX(_)
\* ngram.replace('<ETX>', ''): the first occurrence only
ReplaceFirstETX(s) ==
    IF s = "" THEN ""
    ELSE IF CharAt(s, 1) = ETX THEN SubstringFrom(s, 1)
    ELSE CharAt(s, 1) \o ReplaceFirstETX(SubstringFrom(s, 1))

RECURSIVE Trim(_)
\* String.prototype.trim
Trim(s) ==
    IF s = "" THEN ""
    ELSE IF IsSpace(CharAt(s, 1)) THEN Trim(SubstringFrom(s, 1))
    ELSE IF IsSpace(CharAt(s, Len(s))) THEN Trim(SubSeq(s, 1, Len(s) - 1))
    ELSE s

\* A Map, as the sequence of its entries [k, v] in insertion order
MapHas(map, key) == \E i \in 1..Len(map) : map[i].k = key
MapGet(map, key) == map[CHOOSE i \in 1..Len(map) : map[i].k = key].v
MapSet(map, key, v) ==
    IF MapHas(map, key)
    THEN [i \in 1..Len(map) |-> IF map[i].k = key THEN [k |-> key, v |-> v] ELSE map[i]]
    ELSE Append(map, [k |-> key, v |-> v])

RECURSIVE TabulateFrom(_, _, _, _)
\* The loop of tabulate from window i (0-based): the Map of counts afterwards
TabulateFrom(tokens, n, i, counts) ==
    IF i > Len(tokens) - n THEN counts
    ELSE IF \E j \in (i + 1)..(i + n - 1) : isEndOfSentence(tokens[j])
    THEN TabulateFrom(tokens, n, i + 1, counts)
    ELSE LET ngram == Join(SubSeq(tokens, i + 1, i + n))
             count == IF MapHas(counts, ngram) THEN MapGet(counts, ngram) ELSE 0
         IN  TabulateFrom(tokens, n, i + 1, MapSet(counts, ReplaceFirstETX(ngram), count + 1))

\* tabulate(tokens, size), for a positive size
tabulate(tokens, n) == TabulateFrom(tokens, n, 0, <<>>)

RECURSIVE SumCounts(_)
\* Array.from(grams.values()).reduce((sum, count) => sum + count, 0)
SumCounts(grams) ==
    IF grams = <<>> THEN 0 ELSE grams[1].v + SumCounts(Tail(grams))

\* Mutant: the divisor is the number of distinct n-grams, not the sum of
\* their counts
probabilitiesMutant(grams) ==
    [i \in 1..Len(grams) |->
        [k |-> grams[i].k, v |-> [num |-> grams[i].v, den |-> Len(grams)]]]

\* probabilities(grams): the quotient count / totalNgrams is kept as the pair
\* [num, den]
probabilities(grams) ==
    LET totalNgrams == SumCounts(grams)
    IN  [i \in 1..Len(grams) |->
            [k |-> grams[i].k, v |-> [num |-> grams[i].v, den |-> totalNgrams]]]

\* setValue(text)
setValue(txt, n) == probabilities(tabulate(tokenize(txt), n))

\* Mutant: an n-gram as probable as the best so far is not skipped
LessOrEqualMutant(p, q) == p.num * q.den < q.num * p.den

\* p <= q for quotients p and q (0 is [num |-> 0, den |-> 1])
LessOrEqual(p, q) == p.num * q.den <= q.num * p.den

RECURSIVE SuggestScan(_, _, _, _, _)
\* The loop of suggestNextWord from entry i: the suggestedWord afterwards
SuggestScan(table, sequence, i, maxProbability, suggestedWord) ==
    IF i > Len(table) THEN suggestedWord
    ELSE IF LessOrEqual(table[i].v, maxProbability)
    THEN SuggestScan(table, sequence, i + 1, maxProbability, suggestedWord)
    ELSE LET words == SplitSpace(table[i].k, 1, "")
             match == Join(SubSeq(words, 1, Len(words) - 1))
         IN  IF EndsWith(ToLowerCase(sequence), ToLowerCase(match))
             THEN IF table[i].v.num = table[i].v.den
                  THEN words[Len(words)]
                  ELSE SuggestScan(table, sequence, i + 1, table[i].v, words[Len(words)])
             ELSE SuggestScan(table, sequence, i + 1, maxProbability, suggestedWord)

\* suggestNextWord(sequence, { sanitize })
suggestNextWord(table, sequence, sanitize) ==
    LET suggestedWord == SuggestScan(table, sequence, 1, [num |-> 0, den |-> 1], "")
    IN  IF sanitize THEN StripPunctuation(Trim(suggestedWord)) ELSE suggestedWord

RECURSIVE CompleteLoop(_, _, _, _, _, _, _)
\* The for-loop of complete from wordCount: the words afterwards, and
\* (history) the final token of the n-gram chosen for each appended word
CompleteLoop(table, n, maxWords, wordCount, words, seenSequences, predicted) ==
    LET done     == [words |-> words, predicted |-> predicted]
        idx      == n - 1
        recent   == IF idx = 0 \/ idx >= Len(words) THEN words
                    ELSE SubSeq(words, Len(words) - idx + 1, Len(words))
        sequence == Join(recent)
        nextWord == suggestNextWord(table, sequence, TRUE)
        chosen   == suggestNextWord(table, sequence, FALSE)
    IN  IF wordCount >= maxWords THEN done
        ELSE IF sequence \in seenSequences THEN done
        ELSE IF isEndOfSentence(nextWord)
        THEN [words |-> Append(words, nextWord), predicted |-> Append(predicted, chosen)]
        ELSE IF nextWord = "" THEN done
        ELSE CompleteLoop(table, n, maxWords, wordCount + 1, Append(words, nextWord),
                          seenSequences \cup {sequence}, Append(predicted, chosen))

\* Mutant: the candidate is stored even when it is the prefix itself
UpdatesLookupMutant(cache, prefix, suggestion) ==
    suggestion # cache /\ StartsWith(suggestion, prefix)

\* The condition under which complete assigns this.lookup = suggestion
UpdatesLookup(cache, prefix, suggestion) ==
    suggestion # prefix /\ suggestion # cache /\ StartsWith(suggestion, prefix)

\* The condition under which complete returns this.lookup
ReturnsLookup(cache, prefix) == cache # "" /\ StartsWith(cache, prefix)

\* complete(prefix, maxWords) with this.lookup = cache: what the call did.
\* lookup is this.lookup afterwards and result the value returned; the other
\* fields are history.
NgramComplete(table, n, cache, prefix, maxWords) ==
    LET loop       == CompleteLoop(table, n, maxWords, 0, tokenize(prefix), {}, <<>>)
        suggestion == Join(loop.words)
        stored     == UpdatesLookup(cache, prefix, suggestion)
        after      == IF stored THEN suggestion ELSE cache
    IN  IF prefix = ""
        THEN [suggestion |-> "", predicted |-> <<>>, stored |-> FALSE,
              lookup |-> "", result |-> ""]
        ELSE [suggestion |-> suggestion, predicted |-> loop.predicted, stored |-> stored,
              lookup |-> after,
              result |-> IF ReturnsLookup(after, prefix) THEN after ELSE suggestion]

NoStorer == [prefix |-> "", maxWords |-> 0]
NoCall == [called |-> FALSE, prefix |-> "", maxWords |-> 0, cache |-> "", storer |-> NoStorer,
           did |-> [suggestion |-> "", predicted |-> <<>>, stored |-> FALSE,
                    lookup |-> "", result |-> ""]]
NoSuggestion == [called |-> FALSE, sequence |-> "", word |-> ""]

\* The fields of a new Ngram, with the constructor's arguments chosen
NgramInit ==
    /\ text \in Corpus
    /\ size \in 1..MaxSize
    /\ built = FALSE
    /\ ngrams = <<>>
    /\ lookup = ""
    /\ call = NoCall
    /\ storer = NoStorer
    /\ suggested = NoSuggestion

\* The constructor: this.setValue(input)
NgramConstruct ==
    /\ ~built
    /\ built' = TRUE
    /\ ngrams' = setValue(text, size)
    /\ UNCHANGED <<size, text, lookup, call, storer, suggested>>
    /\ UNCHANGED <<trieVars, levVars>>

\* A call complete(prefix, maxWords).  call keeps the arguments, the cache
\* and its storer as they were when the call started, and (did) what the call
\* did.
NgramCompleteCall(prefix, maxWords) ==
    /\ built
    /\ call' = [called |-> TRUE, prefix |-> prefix, maxWords |-> maxWords,
                cache |-> lookup, storer |-> storer,
                did |-> NgramComplete(ngrams, size, lookup, prefix, maxWords)]
    /\ lookup' = call'.did.lookup
    /\ storer' = IF call'.did.stored THEN [prefix |-> prefix, maxWords |-> maxWords]
                 ELSE IF call'.did.lookup = "" THEN NoStorer
                 ELSE storer
    /\ UNCHANGED <<size, text, built, ngrams, suggested>>
    /\ UNCHANGED <<trieVars, levVars>>

\* A call suggestNextWord(sequence)
NgramSuggestCall(sequence) ==
    /\ built
    /\ suggested' = [called |-> TRUE, sequence |-> sequence,
                     word |-> suggestNextWord(ngrams, sequence, FALSE)]
    /\ UNCHANGED <<size, text, built, ngrams, lookup, call, storer>>
    /\ UNCHANGED <<trieVars, levVars>>

-----------------------------------------------------------------------------
(* Specifications: one per component, the other components at rest *)

TrieIdle ==
    /\ model = << <<>> >> /\ index = 0 /\ inserted = <<>> /\ compressions = 0
    /\ before = << <<>> >> /\ completion = NoCompletion

LevIdle == source = "" /\ target = "" /\ maximumDistance = 0 /\ distance = <<>>

NgramIdle ==
    /\ text = "" /\ size = 1 /\ built = FALSE /\ ngrams = <<>> /\ lookup = ""
    /\ call = NoCall /\ storer = NoStorer /\ suggested = NoSuggestion

TrieSpecInit    == TrieInit /\ LevIdle /\ NgramIdle
LevSpecInit     == LevInit /\ TrieIdle /\ NgramIdle
NgramSpecInit   == NgramInit /\ TrieIdle /\ LevIdle

TrieNext ==
    \/ \E word \in Vocabulary : TrieInsert(word)
    \/ TrieCompress
    \/ \E prefix \in Prefixes, maxWord \in 1..MaxWord : TrieComplete(prefix, maxWord)

LevNext == LevCall

NgramNext ==
    \/ NgramConstruct
    \/ \E prefix \in NgPrefixes, maxWords \in 1..MaxWordsArg :
           NgramCompleteCall(prefix, maxWords)

SuggestNext ==
    \/ NgramConstruct
    \/ \E sequence \in SuggestSequences : NgramSuggestCall(sequence)

TrieSpec    == TrieSpecInit /\ [][TrieNext]_vars
LevSpec     == LevSpecInit /\ [][LevNext]_vars
NgramSpec   == NgramSpecInit /\ [][NgramNext]_vars
SuggestSpec == NgramSpecInit /\ [][SuggestNext]_vars

-----------------------------------------------------------------------------
(* Claims about the Trie (TrieSpec) *)

\* C1: every inserted word satisfies contains right after the insertions and
\* still does after the constructor's compress().
C1_InsertedWordsContained ==
    compressions <= 1 => \A i \in 1..Len(inserted) : Contains(model, inserted[i])

\* The strings contains is asked about
Queries == Vocabulary \cup Prefixes \cup {"ab", "ca", "po", "aind", "cart"}

\* C2: contains(w) after compress() equals contains(w) before it, for every
\* query w.
C2_CompressKeepsContains ==
    compressions >= 1 => \A w \in Queries : Contains(model, w) = Contains(before, w)

\* The inserted words, lowercased, each once, in the order of first insertion
RECURSIVE Distinct(_, _)
Distinct(ws, i) ==
    IF i > Len(ws) THEN <<>>
    ELSE IF \E j \in 1..(i - 1) : ToLowerCase(ws[j]) = ToLowerCase(ws[i])
    THEN Distinct(ws, i + 1)
    ELSE <<ToLowerCase(ws[i])>> \o Distinct(ws, i + 1)

RECURSIVE InsertionOrder(_, _)
RECURSIVE InsertionOrderEach(_, _, _)
\* The words of ws (all starting with path) in pre-order depth-first order,
\* the edges below a node taken in the order the insertions created them
InsertionOrder(path, ws) ==
    (IF \E i \in 1..Len(ws) : ws[i] = path THEN <<path>> ELSE <<>>)
        \o InsertionOrderEach(path, SelectSeq(ws, LAMBDA w : w # path), {})
InsertionOrderEach(path, ws, done) ==
    IF ws = <<>> THEN <<>>
    ELSE LET edge == path \o CharAt(ws[1], Len(path) + 1)
         IN  IF edge \in done THEN InsertionOrderEach(path, Tail(ws), done)
             ELSE InsertionOrder(edge, SelectSeq(ws, LAMBDA w : StartsWith(w, edge)))
                      \o InsertionOrderEach(path, Tail(ws), done \cup {edge})

Take(list, n) == SubSeq(list, 1, IF n < Len(list) THEN n ELSE Len(list))

\* The inserted words starting with the (lowercased) prefix, in insertion
\* order of their edges
ExpectedCompletion(prefix) ==
    InsertionOrder(ToLowerCase(prefix),
        SelectSeq(Distinct(inserted, 1), LAMBDA w : StartsWith(w, ToLowerCase(prefix))))

\* C3: on the constructed trie, complete(prefix, maxWord) with a matching
\* non-empty prefix returns the first maxWord words under the prefix in
\* pre-order, sibling edges in the order insertion first created them.
\* (Stated for the calls that return as many words as are expected, so that
\* it is the order of the words that is compared.)
C3_CompleteInInsertionOrder ==
    (/\ completion.called
     /\ compressions = 1
     /\ completion.prefix # ""
     /\ ExpectedCompletion(completion.prefix) # <<>>
     /\ Len(completion.result.v) =
            Len(Take(ExpectedCompletion(completion.prefix), completion.maxWord)))
    => completion.result.v = Take(ExpectedCompletion(completion.prefix), completion.maxWord)

RECURSIVE Shape(_, _)
\* The node graph below a value, with every edge label
Shape(heap, v) ==
    IF v.t = "obj"
    THEN [i \in 1..Len(heap[v.n]) |-> <<heap[v.n][i].k, Shape(heap, heap[v.n][i].v)>>]
    ELSE <<v>>

\* C8: a second compress() leaves the node graph and every edge label as the
\* first one left them.
C8_CompressIdempotent ==
    compressions = 2 => Shape(model, Root) = Shape(before, Root)

RECURSIVE Reachable(_, _)
\* The nodes reachable from a node
Reachable(heap, id) ==
    {id} \cup UNION {Reachable(heap, heap[id][i].v.n) :
                        i \in {j \in 1..Len(heap[id]) : heap[id][j].v.t = "obj"}}

Children(heap, id) == {i \in 1..Len(heap[id]) : heap[id][i].v.t = "obj"}

\* C9: after compress(), every node below the root that is not a word end has
\* at least two children.
C9_NoSingleChildChain ==
    compressions = 1 =>
        \A id \in Reachable(model, 1) \ {1} :
            ~Flush(model, Obj(id)) => Cardinality(Children(model, id)) >= 2

-----------------------------------------------------------------------------
(* Claims about levenshtein (LevSpec) *)

\* C4: within the length bound, a target that is the source plus one appended
\* character is at distance 1 (an insertion), and a target that is the source
\* without its last character is at distance 2 (a deletion).
C4_AsymmetricCosts ==
    (distance # <<>> /\ Abs(Len(source) - Len(target)) <= maximumDistance) =>
        /\ (Len(target) = Len(source) + 1 /\ StartsWith(target, source)) => distance[1] = 1
        /\ (Len(source) = Len(target) + 1 /\ StartsWith(source, target)) => distance[1] = 2

-----------------------------------------------------------------------------
(* Claims about Ngram.complete (NgramSpec) *)

\* p2 strictly extends p1
StrictlyExtends(p2, p1) == StartsWith(p2, p1) /\ p2 # p1

\* The last call was complete(p2, k) made while the cache held a suggestion S
\* stored by a call complete(p1, k), with p2 strictly extending p1 and still
\* a prefix of S.
GrowingPrefixCall ==
    /\ call.called
    /\ call.cache # ""
    /\ call.maxWords = call.storer.maxWords
    /\ StrictlyExtends(call.prefix, call.storer.prefix)
    /\ StartsWith(call.cache, call.prefix)

\* C5 as claimed: such a call returns exactly the cached suggestion S.
C5_CachedSuggestionReturned ==
    GrowingPrefixCall => call.did.result = call.cache

\* C5 amended: such a call returns S unless the candidate it computed from
\* p2 differs from p2, differs from S and starts with p2; then that candidate
\* replaces the cache and is returned.
C5_CachedUnlessNewCandidate ==
    GrowingPrefixCall =>
        IF /\ call.did.suggestion # call.prefix
           /\ call.did.suggestion # call.cache
           /\ StartsWith(call.did.suggestion, call.prefix)
        THEN call.did.result = call.did.suggestion /\ lookup = call.did.suggestion
        ELSE call.did.result = call.cache /\ lookup = call.cache

\* A growing-prefix call that was answered from the cache, its own candidate
\* being another string
C5_Witness ==
    /\ GrowingPrefixCall
    /\ call.did.result = call.cache
    /\ call.did.suggestion # call.cache

\* C6: once the n-gram chosen for a step ends a sentence, its word is the
\* last one the call appends.
C6_StopsAtSentenceEnd ==
    call.called =>
        \A i \in 1..Len(call.did.predicted) :
            isEndOfSentence(call.did.predicted[i]) => i = Len(call.did.predicted)

-----------------------------------------------------------------------------
(* Claims about the n-gram table and suggestNextWord (SuggestSpec) *)

RECURSIVE SumOfProbabilities(_)
\* The sum of the table's probabilities, as an exact quotient
SumOfProbabilities(table) ==
    IF table = <<>> THEN [num |-> 0, den |-> 1]
    ELSE LET rest == SumOfProbabilities(Tail(table))
         IN  [num |-> table[1].v.num * rest.den + rest.num * table[1].v.den,
              den |-> table[1].v.den * rest.den]

SumsToOne(table) ==
    SumOfProbabilities(table).num = SumOfProbabilities(table).den

\* The windows tabulate counts: those with no sentence end among their first
\* size - 1 tokens
CountedWindows ==
    {i \in 0..(Len(tokenize(text)) - size) :
        \A j \in (i + 1)..(i + size - 1) : ~isEndOfSentence(tokenize(text)[j])}

\* C7 as claimed: the probabilities of the table setValue builds sum to 1,
\* whatever the text and the size.
C7_ProbabilitiesSumToOne ==
    built => SumsToOne(ngrams)

\* C7 amended: when at least one window is counted the probabilities sum to 1;
\* when the text has fewer than size tokens or every window is skipped the
\* table is empty (and the sum is 0).
C7_SumToOneUnlessEmpty ==
    built => IF CountedWindows = {} THEN ngrams = <<>>
             ELSE ngrams # <<>> /\ SumsToOne(ngrams)

\* A table of several n-grams, one of them counted more than once
C7_Witness ==
    /\ built
    /\ Len(ngrams) >= 2
    /\ \E i \in 1..Len(ngrams) : ngrams[i].v.num >= 2

\* The place of the last space of an n-gram (0 when it has none)
LastSpace(ngram) ==
    LET spaces == {i \in 1..Len(ngram) : CharAt(ngram, i) = " "}
    IN  IF spaces = {} THEN 0 ELSE CHOOSE i \in spaces : \A j \in spaces : j <= i

LeadingTokens(ngram) == SubSeq(ngram, 1, LastSpace(ngram) - 1)
FinalToken(ngram)    == SubSeq(ngram, LastSpace(ngram) + 1, Len(ngram))

\* The entries whose leading tokens are a case-insensitive suffix of sequence
Matching(table, sequence) ==
    {i \in 1..Len(table) :
        EndsWith(ToLowerCase(sequence), ToLowerCase(LeadingTokens(table[i].k)))}

\* The first of the matching entries of highest probability
Winner(table, sequence) ==
    CHOOSE i \in Matching(table, sequence) :
        \A j \in Matching(table, sequence) :
            /\ table[j].v.num * table[i].v.den <= table[i].v.num * table[j].v.den
            /\ (table[j].v.num * table[i].v.den = table[i].v.num * table[j].v.den) => i <= j

\* C10 as claimed: suggestNextWord returns the final token of the first
\* matching entry of highest probability, and the empty string exactly when
\* no entry matches.
C10_FinalTokenOfBestMatch ==
    suggested.called =>
        /\ Matching(ngrams, suggested.sequence) # {} =>
               suggested.word = FinalToken(ngrams[Winner(ngrams, suggested.sequence)].k)
        /\ suggested.word = "" <=> Matching(ngrams, suggested.sequence) = {}

\* C10 amended: it returns the final token of the first matching entry of
\* highest probability, which may itself be empty, and the empty string when
\* no entry matches.
C10_FinalTokenOrEmpty ==
    suggested.called =>
        suggested.word =
            IF Matching(ngrams, suggested.sequence) = {} THEN ""
            ELSE FinalToken(ngrams[Winner(ngrams, suggested.sequence)].k)

\* Two matching entries tie for the highest probability and the first wins
C10_Witness ==
    /\ suggested.called
    /\ suggested.word # ""
    /\ \E i, j \in Matching(ngrams, suggested.sequence) :
           /\ i < j
           /\ i = Winner(ngrams, suggested.sequence)
           /\ ngrams[i].v = ngrams[j].v
           /\ FinalToken(ngrams[i].k) # FinalToken(ngrams[j].k)

====
